---------------------------- MODULE Spec2Model ----------------------------
(* Model of nstr_report/nostr.py: the publish retry loop                   *)
(* (publish_note_async) and the relay query (fetch_latest_note_async).     *)
(* Calls into nostr_sdk are the environment: every awaited call either     *)
(* completes or raises an Exception, chosen nondeterministically, and a    *)
(* broadcast reports an arbitrary subset of the added relays as accepted.  *)
(* BaseException (task cancellation, KeyboardInterrupt) is not modelled.   *)
EXTENDS Integers, Sequences, FiniteSets, TLC

\* ------------------------------------------------------------------ bounds
MaxRelays == 2          \* longest relay list explored
MaxEvents == 3          \* most events the relays deliver to one query
MaxTime   == 2          \* creation times are 1..MaxTime

\* ------------------------------------------------------- program constants
MAX_RETRIES == 3        \* nostr.py:26, the default of max_retries

\* Python's None, as an argument value.
None == "None"

\* Relay URL strings: two that RelayUrl.parse accepts, one it rejects.
GoodUrls == {"wss://r1", "wss://r2"}
BadUrls  == {"not-a-url"}
Urls     == GoodUrls \cup BadUrls

SeqsUpTo(S, n) == UNION {[1..k -> S] : k \in 0..n}

VARIABLES
    \* --- arguments of publish_note_async
    relays,           \* list[str]
    private_key_hex,  \* None or a key
    bunker_uri,       \* None or a bunker URI
    update_profile,   \* bool
    max_retries,      \* int
    \* --- locals of publish_note_async
    pc,               \* position in the coroutine
    attempt,          \* loop variable of "for attempt in range(max_retries)"
    signer,           \* mode of the signer create_signer returned last, or "unbound"
    last_error,       \* NoError or the text of the latest failure
    added,            \* relay URLs added to the current Client
    output,           \* [success |-> set, failed |-> set] of send_event_builder
    result,           \* how the coroutine ended
    \* --- the environment (nostr_sdk, asyncio), as the calls left it
    open,             \* attempts whose Client is connected and not yet disconnected
    hist,             \* per finished attempt: what the environment did to it
    trace,            \* order of "attempt" starts and "backoff" sleeps
    profiled,         \* attempts whose set_metadata completed
    sent,             \* attempts in which send_event_builder was called
    \* --- fetch_latest_note_async: arguments, locals, environment
    pubkey,           \* the pubkey string
    contains,         \* {} for None, {s} for the string s
    fpc,              \* position in the coroutine
    events,           \* events.to_vec() of the fetched Events
    fresult,          \* how the coroutine ended
    fopen,            \* the Client is connected and not yet disconnected
    fconnected,       \* the relays of the Client whose connection was established
    arrived,          \* the events in the order the relays delivered them
    \* --- main(): arguments, locals, the cache file, what it called and printed
    dry_run,          \* args.dry_run
    arg_update_profile, \* args.update_profile
    show_config,      \* args.show_config
    repost,           \* args.repost
    cache,            \* the cache file: [exists, date, message, posted]
    mpc,              \* position in main
    message,          \* the message to publish, << >> while unbound
    ai_error_message, \* << >> for None
    event_id,         \* -1 while unbound, else the id the summary publish returned
    exit_code,        \* -1 while main has not returned
    calls,            \* calls main made to its collaborators, in order
    printed           \* the message a dry run printed, << >> when none

pubVars == <<relays, private_key_hex, bunker_uri, update_profile, max_retries,
             pc, attempt, signer, last_error, added, output, result,
             open, hist, trace, profiled, sent>>

fetchVars == <<pubkey, contains, fpc, events, fresult, fopen, fconnected, arrived>>

mainVars == <<dry_run, arg_update_profile, show_config, repost, cache, mpc,
              message, ai_error_message, event_id, exit_code, calls, printed>>

\* The cache file does not exist (load_cache returns None).
NoCache == [exists |-> FALSE, date |-> "none", message |-> << >>, posted |-> 0]

\* main is not running.
MainIdle ==
    /\ dry_run = FALSE
    /\ arg_update_profile = FALSE
    /\ show_config = FALSE
    /\ repost = FALSE
    /\ cache = NoCache
    /\ mpc = "idle"
    /\ message = << >>
    /\ ai_error_message = << >>
    /\ event_id = -1
    /\ exit_code = -1
    /\ calls = << >>
    /\ printed = << >>

\* ------------------------------------------------------------ create_signer
\* Variant: the local key is preferred when both are supplied.
SignerModeKeyFirst(key, bunker) ==
    IF key # None THEN "local"
    ELSE IF bunker # None THEN "remote"
    ELSE "ValueError"

\* Which branch create_signer takes (nostr.py:51-70).
SignerMode(key, bunker) ==
    IF bunker # None THEN "remote"
    ELSE IF key # None THEN "local"
    ELSE "ValueError"

\* Text of the exceptions the steps of an attempt raise.
\* Failure texts are records [text, n] so that any two can be compared.
NoError == [text |-> "None", n |-> 0]
ValueErrorText == "Either private_key_hex or bunker_uri must be provided"

\* str(e) of the exception raised at a step of an attempt (nostr.py:151)
ExcText(step) == [text |-> IF step = "config" THEN ValueErrorText ELSE step, n |-> 0]

\* f"All {failed_count} relays failed" (nostr.py:148)
AllFailedText(n) == [text |-> "All relays failed", n |-> n]

\* f"Failed to publish after {max_retries} attempts: {last_error}" (nostr.py:159)
TerminalText(n, err) == [text |-> "Failed to publish after", n |-> n, last |-> err]

\* How the coroutine ended: not yet, returned an id, raised the terminal
\* error, or let an exception of an attempt through.
NoResult == [kind |-> "none", id |-> -1, error |-> TerminalText(0, NoError)]
Returned(a) == [kind |-> "returned", id |-> a, error |-> TerminalText(0, NoError)]
RaisedTerminal(n, err) == [kind |-> "raised", id |-> -1, error |-> TerminalText(n, err)]
Propagated(e) == [kind |-> "propagated", id |-> -1, error |-> TerminalText(0, e)]

\* No output yet (the name is unbound in the code until send returns).
NoOutput == [success |-> {}, failed |-> {}]

\* ------------------------------------------------------------ the retry loop
\* Variant: the except clause names ValueError only.
CaughtValueErrorOnly(e) == e = "config"

\* "except Exception as e" (nostr.py:150): every Exception is caught.
Caught(e) == TRUE

\* "if success_count > 0" (nostr.py:144)
IsSuccess(success_count) == success_count > 0

\* Variant: the wait also follows the last attempt.
BackoffAfterEveryAttempt(a, n) == a < n

\* "if attempt < max_retries - 1" (nostr.py:155)
ShouldBackoff(a, n) == a < n - 1

\* Variant: the body runs once before the bound is looked at.
InRangeAtLeastOnce(a, n) == a = 0 \/ a < n

\* Variant: one attempt too many, range(max_retries + 1).
InRangeOneMore(a, n) == a <= n

\* Variant: one attempt short, range(max_retries - 1).
InRangeOneShort(a, n) == a < n - 1

\* range(max_retries) still has an element for the loop variable (nostr.py:101)
InRange(a, n) == a < n

\* Variant: the first failure reason is kept, later ones are dropped.
KeepFirstError(old, new) == IF old = [text |-> "None", n |-> 0] THEN new ELSE old

\* "last_error = ..." (nostr.py:148, 151): the new reason replaces the old.
NextLastError(old, new) == new

\* An awaited call of the current attempt raises exception e at step `step`:
\* the except clause (nostr.py:150-152) records it and falls to the backoff.
Raise(step, succ) ==
    IF Caught(step)
    THEN /\ last_error' = NextLastError(last_error, ExcText(step))
         /\ hist' = Append(hist, [exc |-> step, succ |-> succ, failed |-> 0])
         /\ pc' = "backoff"
         /\ result' = result
    ELSE /\ result' = Propagated(ExcText(step))
         /\ hist' = Append(hist, [exc |-> step, succ |-> succ, failed |-> 0])
         /\ pc' = "done"
         /\ last_error' = last_error

PubInitWith(retries) ==
    /\ relays \in SeqsUpTo(Urls, MaxRelays)
    /\ private_key_hex \in {None, "key"}
    /\ bunker_uri \in {None, "bunker://"}
    /\ update_profile \in BOOLEAN
    /\ max_retries \in retries
    /\ pc = "loop"
    /\ attempt = 0
    /\ signer = "unbound"
    /\ last_error = NoError
    /\ added = {}
    /\ output = NoOutput
    /\ result = NoResult
    /\ open = {}
    /\ hist = <<>>
    /\ trace = <<>>
    /\ profiled = {}
    /\ sent = {}
    /\ pubkey = "npub"
    /\ contains = {}
    /\ fpc = "idle"
    /\ events = <<>>
    /\ fresult = [kind |-> "none", value |-> {}, error |-> "none"]
    /\ fopen = FALSE
    /\ fconnected = {}
    /\ arrived = <<>>
    /\ MainIdle

\* A call with max_retries from none to the default.
PubInit == PubInitWith(0..MAX_RETRIES)

\* A call with any max_retries an int argument can be, negative included.
AnyRetriesInit == PubInitWith(-1..MAX_RETRIES)

\* for attempt in range(max_retries): ... / raise Exception(...)  (101, 159)
LoopHead ==
    /\ UNCHANGED <<fetchVars, mainVars>>
    /\ pc = "loop"
    /\ IF InRange(attempt, max_retries)
       THEN /\ pc' = "signer"
            /\ trace' = Append(trace, "attempt")
            /\ result' = result
       ELSE /\ pc' = "done"
            /\ result' = RaisedTerminal(max_retries, last_error)
            /\ trace' = trace
    /\ added' = {}
    /\ output' = NoOutput
    /\ UNCHANGED <<relays, private_key_hex, bunker_uri, update_profile, max_retries,
                   attempt, signer, last_error, open, hist, profiled, sent>>

\* signer = await create_signer(...); client = Client(signer)  (103-104)
CreateSigner ==
    /\ UNCHANGED <<fetchVars, mainVars>>
    /\ pc = "signer"
    /\ IF SignerMode(private_key_hex, bunker_uri) = "ValueError"
       THEN Raise("config", 0) /\ signer' = signer
       ELSE \/ /\ pc' = "add"
               /\ signer' = SignerMode(private_key_hex, bunker_uri)
               /\ UNCHANGED <<last_error, hist, result>>
            \/ /\ Raise("signer", 0)   \* key or bunker URI does not parse
               /\ signer' = signer
    /\ UNCHANGED <<relays, private_key_hex, bunker_uri, update_profile, max_retries,
                   attempt, added, output, open, trace, profiled, sent>>

\* Index of the first URL RelayUrl.parse rejects, 0 when there is none.
FirstBad(rs) ==
    IF \E i \in 1..Len(rs) : rs[i] \in BadUrls
    THEN CHOOSE i \in 1..Len(rs) :
            /\ rs[i] \in BadUrls
            /\ \A j \in 1..(i-1) : rs[j] \notin BadUrls
    ELSE 0

\* for relay in relays: RelayUrl.parse(relay); await client.add_relay(...) (107-109)
AddRelays ==
    /\ UNCHANGED <<fetchVars, mainVars>>
    /\ pc = "add"
    /\ IF FirstBad(relays) = 0
       THEN /\ added' = {relays[i] : i \in 1..Len(relays)}
            /\ pc' = "connect"
            /\ UNCHANGED <<last_error, hist, result>>
       ELSE /\ added' = {relays[i] : i \in 1..(FirstBad(relays) - 1)}
            /\ Raise("parse", 0)
    /\ UNCHANGED <<relays, private_key_hex, bunker_uri, update_profile, max_retries,
                   attempt, signer, output, open, trace, profiled, sent>>

\* await client.connect(); await asyncio.sleep(2)  (112-115)
Connect ==
    /\ UNCHANGED <<fetchVars, mainVars>>
    /\ pc = "connect"
    /\ \/ /\ open' = open \cup {attempt}
          /\ pc' = "profile"
          /\ UNCHANGED <<last_error, hist, result>>
       \/ /\ \E stays \in BOOLEAN : open' = IF stays THEN open \cup {attempt} ELSE open
          /\ Raise("connect", 0)
    /\ UNCHANGED <<relays, private_key_hex, bunker_uri, update_profile, max_retries,
                   attempt, signer, added, output, trace, profiled, sent>>

\* if update_profile: await client.set_metadata(metadata)  (118-124)
Profile ==
    /\ UNCHANGED <<fetchVars, mainVars>>
    /\ pc = "profile"
    /\ IF update_profile
       THEN \/ /\ profiled' = profiled \cup {attempt}
               /\ pc' = "send"
               /\ UNCHANGED <<last_error, hist, result>>
            \/ /\ profiled' = profiled
               /\ Raise("profile", 0)
       ELSE /\ pc' = "send"
            /\ UNCHANGED <<last_error, hist, result, profiled>>
    /\ UNCHANGED <<relays, private_key_hex, bunker_uri, update_profile, max_retries,
                   attempt, signer, added, output, open, trace, sent>>

\* output = await client.send_event_builder(builder)  (127-128)
Send ==
    /\ UNCHANGED <<fetchVars, mainVars>>
    /\ pc = "send"
    /\ sent' = sent \cup {attempt}
    /\ \/ \E acc \in SUBSET added :
             /\ output' = [success |-> acc, failed |-> added \ acc]
             /\ pc' = "disconnect"
             /\ UNCHANGED <<last_error, hist, result>>
       \/ /\ output' = output
          /\ Raise("send", 0)
    /\ UNCHANGED <<relays, private_key_hex, bunker_uri, update_profile, max_retries,
                   attempt, signer, added, open, trace, profiled>>

\* success_count, failed_count; await client.disconnect(); return / last_error (131-148)
Disconnect ==
    /\ UNCHANGED <<fetchVars, mainVars>>
    /\ pc = "disconnect"
    /\ LET success_count == Cardinality(output.success)
           failed_count  == Cardinality(output.failed)
       IN \/ /\ open' = open \ {attempt}
             /\ IF IsSuccess(success_count)
                THEN /\ result' = Returned(attempt)
                     /\ pc' = "done"
                     /\ hist' = Append(hist, [exc |-> "none", succ |-> success_count,
                                              failed |-> failed_count])
                     /\ last_error' = last_error
                ELSE /\ last_error' = NextLastError(last_error, AllFailedText(failed_count))
                     /\ pc' = "backoff"
                     /\ hist' = Append(hist, [exc |-> "none", succ |-> success_count,
                                              failed |-> failed_count])
                     /\ result' = result
          \/ /\ \E stays \in BOOLEAN : open' = IF stays THEN open ELSE open \ {attempt}
             /\ Raise("disconnect", success_count)
    /\ UNCHANGED <<relays, private_key_hex, bunker_uri, update_profile, max_retries,
                   attempt, signer, added, output, trace, profiled, sent>>

\* if attempt < max_retries - 1: await asyncio.sleep(RETRY_DELAY_SECONDS)  (155-157)
Backoff ==
    /\ UNCHANGED <<fetchVars, mainVars>>
    /\ pc = "backoff"
    /\ trace' = IF ShouldBackoff(attempt, max_retries) THEN Append(trace, "backoff") ELSE trace
    /\ attempt' = attempt + 1
    /\ pc' = "loop"
    /\ UNCHANGED <<relays, private_key_hex, bunker_uri, update_profile, max_retries,
                   signer, last_error, added, output, result, open, hist, profiled, sent>>

PubNext ==
    \/ LoopHead
    \/ CreateSigner
    \/ AddRelays
    \/ Connect
    \/ Profile
    \/ Send
    \/ Disconnect
    \/ Backoff


\* ===================================================================
\* fetch_latest_note_async (nostr.py:206-251)
\* ===================================================================

\* Note bodies and filter strings, as sequences of characters.
Bodies  == {<<"a">>, <<"b">>, <<"a", "b">>}
Filters == {<< >>, <<"a">>, <<"a", "b">>}

\* An event of kind 1 by the queried author: creation time and body.
EventUniverse == [created_at : 1..MaxTime, content : Bodies]

\* Python's "sub in s" on strings.
IsSubstring(sub, s) ==
    \E i \in 0..(Len(s) - Len(sub)) : SubSeq(s, i + 1, i + Len(sub)) = sub

\* Truth value of the argument "contains": None and "" are false.
Truthy(c) == \E f \in c : f # << >>

\* Variant: the batch limit is used whether or not a filter is given.
LimitAlwaysBatch(c) == 20

\* "limit = 20 if contains else 1" (nostr.py:236)
Limit(c) == IF Truthy(c) THEN 20 ELSE 1

\* The orders in which the relays may deliver up to n distinct events.
ArrivalOrders(n) ==
    {q \in SeqsUpTo(EventUniverse, n) :
        \A i, j \in 1..Len(q) : i # j => q[i] # q[j]}

\* nostr_sdk's Events collection holds what arrived sorted by creation time,
\* newest first (events of equal time in the order of their ids, which is
\* any order here), and holds at most `limit` of them, dropping the oldest.
EventsToVec(arr, limit) ==
    {SubSeq(p, 1, IF limit < Len(p) THEN limit ELSE Len(p)) :
        p \in {q \in [1..Len(arr) -> {arr[i] : i \in 1..Len(arr)}] :
                  /\ \A i, j \in 1..Len(arr) : i # j => q[i] # q[j]
                  /\ \A i, j \in 1..Len(arr) :
                        i < j => q[i].created_at >= q[j].created_at}}

\* "contains is None or contains in content" (nostr.py:248)
Matches(c, content) == c = {} \/ \E f \in c : IsSubstring(f, content)

\* Variant: the scan keeps the last matching event instead of the first.
LastMatch(evs, c) ==
    LET idx == {i \in 1..Len(evs) : Matches(c, evs[i].content)}
    IN IF idx = {} THEN {}
       ELSE {evs[CHOOSE i \in idx : \A j \in idx : j <= i].content}

\* The scan of events.to_vec() (nostr.py:245-251): the content of the first
\* matching event as {content}, or {} for None.
FirstMatch(evs, c) ==
    LET idx == {i \in 1..Len(evs) : Matches(c, evs[i].content)}
    IN IF idx = {} THEN {}
       ELSE {evs[CHOOSE i \in idx : \A j \in idx : i <= j].content}

NoFetchResult == [kind |-> "none", value |-> {}, error |-> "none"]

\* An exception in fetch_latest_note_async is not caught: it ends the call.
FetchRaise(step) ==
    /\ fresult' = [kind |-> "raised", value |-> {}, error |-> step]
    /\ fpc' = "done"

FetchInit ==
    /\ relays \in SeqsUpTo(Urls, MaxRelays)
    /\ pubkey \in {"npub", "not-a-key"}
    /\ contains \in {{}} \cup {{f} : f \in Filters}
    /\ fpc = "add"
    /\ events = << >>
    /\ fresult = NoFetchResult
    /\ fopen = FALSE
    /\ fconnected = {}
    /\ arrived = << >>
    /\ MainIdle
    /\ private_key_hex = None
    /\ bunker_uri = None
    /\ update_profile = FALSE
    /\ max_retries = 0
    /\ pc = "idle"
    /\ attempt = 0
    /\ signer = "unbound"
    /\ last_error = NoError
    /\ added = {}
    /\ output = NoOutput
    /\ result = NoResult
    /\ open = {}
    /\ hist = << >>
    /\ trace = << >>
    /\ profiled = {}
    /\ sent = {}

\* client = Client(); for relay in relays: parse, add_relay  (221-226)
FetchAddRelays ==
    /\ fpc = "add"
    /\ IF FirstBad(relays) = 0
       THEN fpc' = "connect" /\ fresult' = fresult
       ELSE FetchRaise("parse")
    /\ UNCHANGED <<pubkey, contains, events, fopen, fconnected, arrived, pubVars, mainVars>>

\* await client.connect(); await asyncio.sleep(2)  (228-229)
FetchConnect ==
    /\ fpc = "connect"
    /\ \/ /\ fopen' = TRUE
          /\ fconnected' \in SUBSET {relays[i] : i \in 1..Len(relays)}
          /\ fpc' = "pubkey"
          /\ fresult' = fresult
       \/ /\ fopen' \in BOOLEAN
          /\ fconnected' = fconnected
          /\ FetchRaise("connect")
    /\ UNCHANGED <<pubkey, contains, events, arrived, pubVars, mainVars>>

\* pk = PublicKey.parse(pubkey)  (232)
FetchParsePubkey ==
    /\ fpc = "pubkey"
    /\ IF pubkey = "npub"
       THEN fpc' = "fetch" /\ fresult' = fresult
       ELSE FetchRaise("pubkey")
    /\ UNCHANGED <<pubkey, contains, events, fopen, fconnected, arrived, pubVars, mainVars>>

\* limit; f = Filter()...; events = await client.fetch_events(f, 15 s)  (236-240)
FetchEvents ==
    /\ fpc = "fetch"
    /\ \/ \E arr \in ArrivalOrders(IF fconnected = {} THEN 0 ELSE MaxEvents) :
            \E vec \in EventsToVec(arr, Limit(contains)) :
               /\ arrived' = arr
               /\ events' = vec
               /\ fpc' = "disconnect"
               /\ fresult' = fresult
       \/ /\ FetchRaise("fetch")
          /\ UNCHANGED <<events, arrived>>
    /\ UNCHANGED <<pubkey, contains, fopen, fconnected, pubVars, mainVars>>

\* await client.disconnect()  (242)
FetchDisconnect ==
    /\ fpc = "disconnect"
    /\ \/ fopen' = FALSE /\ fpc' = "scan" /\ fresult' = fresult
       \/ fopen' \in BOOLEAN /\ FetchRaise("disconnect")
    /\ UNCHANGED <<pubkey, contains, events, fconnected, arrived, pubVars, mainVars>>

\* if not events.is_empty(): for event in events.to_vec(): ... return  (245-251)
FetchScan ==
    /\ fpc = "scan"
    /\ fresult' = [kind |-> "returned", value |-> FirstMatch(events, contains),
                   error |-> "none"]
    /\ fpc' = "done"
    /\ UNCHANGED <<pubkey, contains, events, fopen, fconnected, arrived, pubVars, mainVars>>

FetchNext ==
    \/ FetchAddRelays
    \/ FetchConnect
    \/ FetchParsePubkey
    \/ FetchEvents
    \/ FetchDisconnect
    \/ FetchScan


\* ===================================================================
\* main() (main.py:43-221).  The cache file can be read and written.
\* ===================================================================

\* "BNOC Daily Summary", the marker main passes as contains (main.py:127).
SummaryMarker == <<"a">>

\* A summary saved by an earlier run.
CachedMessage == <<"a", "b">>

\* A call of main to one of its collaborators, with the arguments that matter.
Call(fn, content, up) ==
    [fn |-> fn, content |-> content, update_profile |-> up,
     relays |-> relays, key |-> private_key_hex, bunker |-> bunker_uri]

\* format_activity (formatter.py:92-139) returns a str: NSTR_MESSAGE without
\* topics, the summary text when the summarizer ran and succeeded, and the
\* plain listing otherwise.
FormatActivity(has_topics, has_posts, api_key, summarizer_ok) ==
    [type |-> "str",
     text |-> IF ~has_topics THEN "NSTR"
              ELSE IF api_key /\ has_posts /\ summarizer_ok THEN "summary"
              ELSE "listing"]

\* Whether generate_summary_with_claude is called (formatter.py:102, 110).
CallsSummarizer(has_topics, has_posts, api_key) == has_topics /\ api_key /\ has_posts

\* output.message, output.ai_failed, output.error_message (main.py:163-166)
\* exist on the value format_activity returned; a str has none of them.
HasAttr(out) == out.type # "str"

\* Variant: the signer check is left out.
SignerCheckOmitted(b, k) == FALSE

\* "if not config.bunker_uri and not config.private_key_hex" (main.py:101)
NoSigner(b, k) == b = None /\ k = None

\* Variant: the relay query is tried whatever the signer is.
HasNpubAlways(k) == TRUE

\* "npub = get_public_key(key) if key else None", "if npub:" (main.py:123-125)
HasNpub(k) == k # None

\* get_public_key (nostr.py:178-181) parses the key and raises on one that
\* is not a secret key; load_config (config.py:103-105) takes a hex key as
\* it is.  At main.py:82 and main.py:123 nothing has parsed the key before.
KeyUnchecked(k) == k # None

\* At main.py:195 a local signer has already parsed the key (nostr.py:36-70),
\* a remote signer has not; neither has main unless it went through
\* main.py:123.
KeyUncheckedAfterPublish(b, k) == k # None /\ SignerMode(k, b) = "remote"

\* Variant: the --repost flag is ignored.
RepostBranchIgnored(r) == FALSE

\* "if args.repost:" (main.py:112)
RepostBranch(r) == r

\* Variant: the notification is posted after every successful publish.
ShouldNotifyAlways(err) == TRUE

\* "if ai_error_message:" (main.py:202)
ShouldNotify(err) == err # << >>

\* "if cache and cache.get('date') == today" (main.py:117)
CacheHit(c) == c.exists /\ c.date = "today"

\* save_cache(message, today) (main.py:18-22)
SaveCache(msg) == [exists |-> TRUE, date |-> "today", message |-> msg, posted |-> 0]

\* update_cache_posted(timestamp) (main.py:35-40)
UpdateCachePosted(c) == IF c.exists THEN [c EXCEPT !.posted = @ + 1] ELSE c

\* "return code" of main.
Return(code) ==
    /\ exit_code' = code
    /\ mpc' = "done"

\* publish_note(...) is entered: asyncio.run starts publish_note_async with
\* max_retries at its default (nostr.py:162-177, main.py:185-192, 205-212).
StartPublish(up) ==
    /\ update_profile' = up
    /\ max_retries' = MAX_RETRIES
    /\ pc' = "loop"
    /\ attempt' = 0
    /\ signer' = "unbound"
    /\ last_error' = NoError
    /\ added' = {}
    /\ output' = NoOutput
    /\ result' = NoResult
    /\ open' = {}
    /\ hist' = << >>
    /\ trace' = << >>
    /\ profiled' = {}
    /\ sent' = {}
    /\ UNCHANGED <<relays, private_key_hex, bunker_uri>>

\* The repost path has its message: dry run (main.py:145-149) or the
\* summary publish (main.py:183-192).
AfterRepostMessage(msg, log) ==
    /\ message' = msg
    /\ IF dry_run
       THEN /\ printed' = msg
            /\ calls' = log
            /\ Return(0)
            /\ UNCHANGED pubVars
       ELSE /\ printed' = printed
            /\ calls' = Append(log, Call("publish_note", msg, arg_update_profile))
            /\ mpc' = "publish"
            /\ exit_code' = exit_code
            /\ StartPublish(arg_update_profile)

MainInit ==
    /\ relays \in SeqsUpTo(Urls, MaxRelays)
    /\ private_key_hex \in {None, "key"}
    /\ bunker_uri \in {None, "bunker://"}
    /\ dry_run \in BOOLEAN
    /\ arg_update_profile \in BOOLEAN
    /\ show_config \in BOOLEAN
    /\ repost \in BOOLEAN
    /\ cache \in {NoCache,
                  [exists |-> TRUE, date |-> "today", message |-> CachedMessage, posted |-> 0],
                  [exists |-> TRUE, date |-> "old", message |-> CachedMessage, posted |-> 0]}
    /\ mpc = "start"
    /\ message = << >>
    /\ ai_error_message = << >>
    /\ event_id = -1
    /\ exit_code = -1
    /\ calls = << >>
    /\ printed = << >>
    /\ update_profile = FALSE
    /\ max_retries = MAX_RETRIES
    /\ pc = "idle"
    /\ attempt = 0
    /\ signer = "unbound"
    /\ last_error = NoError
    /\ added = {}
    /\ output = NoOutput
    /\ result = NoResult
    /\ open = {}
    /\ hist = << >>
    /\ trace = << >>
    /\ profiled = {}
    /\ sent = {}
    /\ pubkey = "npub"
    /\ contains = {}
    /\ fpc = "idle"
    /\ events = << >>
    /\ fresult = NoFetchResult
    /\ fopen = FALSE
    /\ fconnected = {}
    /\ arrived = << >>

\* load_config, --show-config, the signer check, ai_error_message = None
\* (main.py:69-109) and the choice of the path (main.py:112, 150)
MainStart ==
    /\ mpc = "start"
    /\ IF show_config
       THEN \/ Return(0)
            \/ \* get_public_key raises at main.py:82, outside any try
               /\ bunker_uri = None
               /\ KeyUnchecked(private_key_hex)
               /\ mpc' = "crashed"
               /\ exit_code' = exit_code
       ELSE IF NoSigner(bunker_uri, private_key_hex)
       THEN Return(1)
       ELSE /\ mpc' = IF RepostBranch(repost) THEN "repost" ELSE "fresh"
            /\ exit_code' = exit_code
    /\ ai_error_message' = << >>
    /\ UNCHANGED <<dry_run, arg_update_profile, show_config, repost, cache,
                   message, event_id, calls, printed, pubVars, fetchVars>>

\* The repost path up to the relay query (main.py:113-143)
MainRepost ==
    /\ mpc = "repost"
    /\ IF CacheHit(cache)
       THEN /\ AfterRepostMessage(cache.message, calls)
            /\ UNCHANGED fetchVars
       ELSE IF HasNpub(private_key_hex)
       THEN \/ \* fetch_latest_note(npub, config.relays, contains=...) is entered
               /\ calls' = Append(calls, Call("fetch_latest_note", SummaryMarker, FALSE))
               /\ mpc' = "fetching"
               /\ pubkey' = "npub"
               /\ contains' = {SummaryMarker}
               /\ fpc' = "add"
               /\ events' = << >>
               /\ fresult' = NoFetchResult
               /\ fopen' = FALSE
               /\ fconnected' = {}
               /\ arrived' = << >>
               /\ UNCHANGED <<message, printed, exit_code, pubVars>>
            \/ \* get_public_key raises at main.py:123, outside any try
               /\ KeyUnchecked(private_key_hex)
               /\ mpc' = "crashed"
               /\ UNCHANGED <<message, printed, exit_code, calls, pubVars, fetchVars>>
       ELSE /\ Return(1)
            /\ UNCHANGED <<message, printed, calls, pubVars, fetchVars>>
    /\ UNCHANGED <<dry_run, arg_update_profile, show_config, repost, cache,
                   ai_error_message, event_id>>

\* fetch_latest_note has returned or raised (main.py:126-140, 145-149)
MainFetchReturns ==
    /\ mpc = "fetching"
    /\ fpc = "done"
    /\ IF fresult.kind = "returned" /\ fresult.value # {} /\ fresult.value # {<< >>}
       THEN /\ \E latest \in fresult.value : AfterRepostMessage(latest, calls)
            /\ \E latest \in fresult.value : cache' = SaveCache(latest)
       ELSE /\ Return(1)
            /\ UNCHANGED <<message, printed, calls, cache, pubVars>>
    /\ fpc' = "idle"
    /\ events' = << >>
    /\ arrived' = << >>
    /\ fconnected' = {}
    /\ UNCHANGED <<pubkey, contains, fresult, fopen>>
    /\ UNCHANGED <<dry_run, arg_update_profile, show_config, repost,
                   ai_error_message, event_id>>

\* The fresh path: fetch_activity, format_activity, the reads of the
\* output's attributes, dry run, save_cache, the summary publish
\* (main.py:152-192)
MainFresh ==
    /\ mpc = "fresh"
    /\ \E fetch_ok, has_topics, has_posts, api_key, summarizer_ok \in BOOLEAN :
        IF ~fetch_ok
        THEN /\ calls' = Append(calls, Call("fetch_activity", << >>, FALSE))
             /\ Return(1)
             /\ UNCHANGED <<message, ai_error_message, cache, printed, pubVars>>
        ELSE LET out == FormatActivity(has_topics, has_posts, api_key, summarizer_ok)
                 log == calls \o <<Call("fetch_activity", << >>, FALSE)>>
                        \o (IF CallsSummarizer(has_topics, has_posts, api_key)
                            THEN <<Call(IF summarizer_ok THEN "summarizer"
                                        ELSE "summarizer failed", << >>, FALSE)>>
                            ELSE << >>)
                        \o <<Call("format_activity", << >>, FALSE)>>
             IN IF ~HasAttr(out)
                THEN \* AttributeError at main.py:163, outside any try
                     /\ mpc' = "crashed"
                     /\ calls' = log
                     /\ UNCHANGED <<message, ai_error_message, cache, printed,
                                    exit_code, pubVars>>
                ELSE /\ message' = out.message
                     /\ ai_error_message' = IF out.ai_failed THEN out.error_message
                                            ELSE ai_error_message
                     /\ IF dry_run
                        THEN /\ printed' = out.message
                             /\ calls' = log
                             /\ Return(0)
                             /\ UNCHANGED <<cache, pubVars>>
                        ELSE /\ cache' = SaveCache(out.message)
                             /\ printed' = printed
                             /\ calls' = Append(log, Call("publish_note", out.message,
                                                          arg_update_profile))
                             /\ mpc' = "publish"
                             /\ exit_code' = exit_code
                             /\ StartPublish(arg_update_profile)
    /\ UNCHANGED <<dry_run, arg_update_profile, show_config, repost, event_id, fetchVars>>

\* publish_note has returned or raised: the summary publish (main.py:193-202,
\* 217-221) or the notification publish (main.py:213-215, 221)
MainPublishReturns ==
    /\ mpc \in {"publish", "notify"}
    /\ pc = "done"
    /\ IF mpc = "publish"
       THEN IF result.kind = "returned"
            THEN /\ event_id' = result.id
                 /\ \/ /\ cache' = UpdateCachePosted(cache)
                       /\ IF ShouldNotify(ai_error_message)
                          THEN /\ calls' = Append(calls, Call("publish_note",
                                                              ai_error_message, FALSE))
                               /\ mpc' = "notify"
                               /\ exit_code' = exit_code
                               /\ StartPublish(FALSE)
                          ELSE /\ Return(0)
                               /\ UNCHANGED <<calls, pubVars>>
                    \/ \* get_public_key raises at main.py:195, inside the try:
                       \* the except at main.py:217 returns 1
                       /\ KeyUncheckedAfterPublish(bunker_uri, private_key_hex)
                       /\ \A i \in 1..Len(calls) : calls[i].fn # "fetch_latest_note"
                       /\ Return(1)
                       /\ UNCHANGED <<cache, calls, pubVars>>
            ELSE /\ Return(1)
                 /\ UNCHANGED <<event_id, cache, calls, pubVars>>
       ELSE /\ Return(0)
            /\ UNCHANGED <<event_id, cache, calls, pubVars>>
    /\ UNCHANGED <<dry_run, arg_update_profile, show_config, repost, message,
                   ai_error_message, printed, fetchVars>>

MainNext ==
    \/ MainStart
    \/ MainRepost
    \/ MainFetchReturns
    \/ MainFresh
    \/ MainPublishReturns

vars == <<pubVars, fetchVars, mainVars>>

\* publish_note_async on its own.
Init == PubInit
Next == PubNext
Spec == Init /\ [][Next]_vars

\* publish_note_async run by the event loop of asyncio.run: a coroutine whose
\* awaited call has completed or raised is resumed.
FairSpec == Spec /\ WF_vars(Next)

\* publish_note_async on its own, max_retries not restricted to naturals.
AnyRetriesSpec == AnyRetriesInit /\ [][Next]_vars

\* fetch_latest_note_async on its own.
FetchSpec == FetchInit /\ [][FetchNext]_vars

\* One run of main, with the query and the publishes it makes.
MainSpec == MainInit /\ [][MainNext \/ FetchNext \/ PubNext]_vars

\* ===================================================================
\* Properties of publish_note_async
\* ===================================================================

\* Number of occurrences of tok in sequence t.
Count(t, tok) == Cardinality({i \in 1..Len(t) : t[i] = tok})

\* n attempts with one backoff between each two consecutive ones, none after the last.
Alternating(t, n) ==
    /\ Len(t) = (IF n = 0 THEN 0 ELSE 2 * n - 1)
    /\ \A i \in 1..Len(t) : t[i] = (IF i % 2 = 1 THEN "attempt" ELSE "backoff")

\* The failure reason of an attempt, from what the environment did to it.
ReasonOf(h) ==
    IF h.exc # "none"
    THEN [text |-> IF h.exc = "config" THEN ValueErrorText ELSE h.exc, n |-> 0]
    ELSE [text |-> "All relays failed", n |-> h.failed]

\* No relay accepted the note in any attempt finished so far.
NoAcceptance == \A i \in 1..Len(hist) : hist[i].succ = 0

\* Every finished attempt ended with all relays rejecting (no exception).
AllRejected == \A i \in 1..Len(hist) : hist[i].exc = "none" /\ hist[i].succ = 0

\* C1: as soon as an attempt collects at least one relay acceptance, publish
\* returns that event's id and performs no further attempt.
C1_ReturnsOnFirstAcceptance ==
    \A i \in 1..Len(hist) :
        hist[i].succ > 0 =>
            /\ i = Len(hist)
            /\ Count(trace, "attempt") = i
            /\ result = Returned(i - 1)

\* C2: when no attempt collects an acceptance, publish never returns an id,
\* and when it raises the terminal error it has made exactly max_retries
\* attempts with a backoff between each two consecutive attempts.
C2_AllRejectExhausts ==
    NoAcceptance =>
        /\ result.kind # "returned"
        /\ (pc = "done" => result.kind = "raised")
        /\ (result.kind = "raised" =>
                /\ Len(hist) = max_retries
                /\ Count(trace, "attempt") = max_retries
                /\ Alternating(trace, max_retries))

C2_Witness ==
    /\ result.kind = "raised"
    /\ max_retries = MAX_RETRIES
    /\ Len(relays) = 2
    /\ hist[1].exc = "connect"
    /\ hist[2].exc = "none" /\ hist[2].failed = 2
    /\ hist[3].exc = "send"

\* C3 as stated: with relays that all reject and max_retries = 3, three
\* attempts and three backoff waits precede the terminal error.
C3_ThreeBackoffs ==
    (result.kind = "raised" /\ max_retries = 3 /\ AllRejected) =>
        /\ Count(trace, "attempt") = 3
        /\ Count(trace, "backoff") = 3

\* C3 amended: with relays that all reject and max_retries = 3, three attempts
\* and two backoff waits precede the terminal error; no wait follows the
\* last attempt.
C3_ThreeAttemptsTwoBackoffs ==
    (result.kind = "raised" /\ max_retries = 3 /\ AllRejected) =>
        /\ Count(trace, "attempt") = 3
        /\ Count(trace, "backoff") = 2
        /\ trace[Len(trace)] = "attempt"

C3_Witness ==
    /\ result.kind = "raised"
    /\ max_retries = 3
    /\ relays = <<"wss://r1", "wss://r2">>
    /\ Len(hist) = 3
    /\ \A i \in 1..3 : hist[i].exc = "none" /\ hist[i].succ = 0 /\ hist[i].failed = 2

\* C4: the terminal error is raised only after max_retries failed attempts
\* and carries the failure reason of the last attempt performed.
C4_LastReason ==
    result.kind = "raised" =>
        /\ Len(hist) = max_retries
        /\ \A i \in 1..Len(hist) : hist[i].exc # "none" \/ hist[i].succ = 0
        /\ result.error.n = max_retries
        /\ (max_retries > 0 => result.error.last = ReasonOf(hist[Len(hist)]))

C4_Witness ==
    /\ result.kind = "raised"
    /\ Len(hist) = 3
    /\ hist[1].exc = "send"
    /\ hist[2].exc = "connect"
    /\ hist[3].exc = "none" /\ hist[3].failed = 2
    /\ result.error.last = [text |-> "All relays failed", n |-> 2]

\* The environment raised an exception in the current attempt in this step.
ExceptionStep ==
    /\ Len(hist') = Len(hist) + 1
    /\ hist'[Len(hist')].exc # "none"

\* C5: an exception raised in any step of an attempt is caught and recorded
\* as the attempt's failure reason; the loop goes on to the backoff and the
\* next attempt, and nothing reaches the caller before max_retries attempts.
C5_ExceptionsDriveRetry ==
    /\ [](result.kind # "propagated")
    /\ []((result.kind = "raised") => Len(hist) = max_retries)
    /\ [][ExceptionStep =>
            /\ last_error' = ReasonOf(hist'[Len(hist')])
            /\ pc' = "backoff"
            /\ result'.kind = "none"]_vars
    /\ [][(pc = "backoff" /\ attempt + 1 < max_retries) =>
            /\ trace' = Append(trace, "backoff")
            /\ pc' = "loop"]_vars
    /\ [][(pc = "loop" /\ attempt < max_retries) =>
            /\ pc' = "signer"
            /\ trace' = Append(trace, "attempt")]_vars

C5_Witness ==
    /\ pc = "signer"
    /\ Len(hist) = 2
    /\ hist[1].exc = "disconnect" /\ hist[1].succ > 0
    /\ hist[2].exc = "profile"
    /\ Count(trace, "attempt") = 3

\* C6: called with neither a private key nor a bunker URI, publish surfaces
\* the configuration error at once: one signer acquisition, no backoff wait,
\* no retry.
C6_ConfigErrorIsFatal ==
    (private_key_hex = None /\ bunker_uri = None) =>
        /\ Count(trace, "backoff") = 0
        /\ Count(trace, "attempt") <= 1

\* C7: a failed profile push does not abort the attempt: the note is still
\* broadcast in that attempt.
C7_ProfileBestEffort ==
    \A i \in 1..Len(hist) : hist[i].exc = "profile" => (i - 1) \in sent

\* C8: whenever publish returns or raises, no client of any attempt is
\* still connected.
C8_NoOpenClientAtExit ==
    pc = "done" => open = {}

\* ===================================================================
\* Properties of fetch_latest_note_async
\* ===================================================================

\* C9: fetch_latest_note_async disconnects the relay set before it returns
\* or raises, on every path.
C9_FetchDisconnectsOnEveryPath ==
    fpc = "done" => ~fopen

\* The events of a set that contain the filter string f.
MatchingIn(S, f) == {e \in S : IsSubstring(f, e.content)}

C11_NoFilterSingleNewest ==
    /\ [](contains = {} =>
            /\ Len(events) <= 1
            /\ (Len(arrived) > 0 =>
                    /\ Len(events) = 1
                    /\ \A i \in 1..Len(arrived) :
                          arrived[i].created_at <= events[1].created_at)
            /\ (fresult.kind = "returned" =>
                    fresult.value = IF Len(arrived) = 0 THEN {}
                                    ELSE {events[1].content}))
    /\ [][(contains = {} /\ fpc = "scan") => fresult'.kind = "returned"]_vars
    /\ [][(fpc = "connect" /\ fpc' = "pubkey") => fresult'.kind = "none"]_vars

C11_Witness ==
    /\ contains = {}
    /\ fresult.kind = "returned"
    /\ fresult.value = {}
    /\ Len(relays) = 2
    /\ fconnected = {"wss://r1"}
    /\ arrived = << >>

\* ===================================================================
\* Further properties of publish_note_async
\* ===================================================================

\* The attempt holds a signer: create_signer has returned in this attempt.
HoldsSigner == pc \in {"add", "connect", "profile", "send", "disconnect"}

\* C15: create_signer yields a signer of exactly one mode, remote when a
\* bunker URI is supplied and local when only a private key is supplied, and
\* fails with the configuration error when neither is supplied.
C15_SignerMode ==
    /\ (HoldsSigner =>
            /\ signer \in {"local", "remote"}
            /\ (signer = "remote" <=> bunker_uri # None)
            /\ (signer = "local" <=> (bunker_uri = None /\ private_key_hex # None)))
    /\ ((private_key_hex = None /\ bunker_uri = None) =>
            /\ signer = "unbound"
            /\ ~HoldsSigner
            /\ \A i \in 1..Len(hist) : hist[i].exc = "config")

C15_Witness ==
    /\ pc = "send"
    /\ signer = "remote"
    /\ private_key_hex # None
    /\ bunker_uri # None

\* C16: attempts never overlap: an attempt starts, acquires its signer and
\* adds its relays only when no client of an earlier attempt is connected,
\* and at no time are clients of two attempts connected.
C16_AttemptsNeverOverlap ==
    /\ Cardinality(open) <= 1
    /\ open \subseteq {attempt}
    /\ (pc \in {"signer", "add", "connect"} => open = {})

\* C17: a relay that cannot be used, its URL failing to parse included, is
\* left out of the attempt's broadcast and never aborts the attempt: every
\* attempt that got its signer, connected and passed the profile step has
\* broadcast the note.
C17_UnusableRelayExcluded ==
    \A i \in 1..Len(hist) :
        /\ hist[i].exc # "parse"
        /\ (hist[i].exc \notin {"config", "signer", "connect", "profile"}
                => (i - 1) \in sent)

\* Steps left in the coroutine: strictly smaller after every step.
Rank ==
    (max_retries - attempt) * 10 +
    (CASE pc = "loop" -> 9 [] pc = "signer" -> 8 [] pc = "add" -> 7
       [] pc = "connect" -> 6 [] pc = "profile" -> 5 [] pc = "send" -> 4
       [] pc = "disconnect" -> 3 [] pc = "backoff" -> 2 [] OTHER -> 0)

\* C18: publish terminates: every step that completes or raises brings the
\* coroutine closer to its end, it cannot get stuck before the end, it ends
\* by returning an id or raising the terminal error, and it makes at most
\* max_retries attempts and at most max_retries backoff waits.
C18_Terminates ==
    /\ <>(pc = "done")
    /\ [](pc = "done" \/ ENABLED Next)
    /\ [][Rank' < Rank]_vars
    /\ [](/\ Count(trace, "attempt") <= max_retries
          /\ Count(trace, "backoff") <= max_retries)
    /\ [](pc = "done" => result.kind \in {"returned", "raised"})

C18_Witness ==
    /\ pc = "done"
    /\ result = Returned(2)
    /\ Count(trace, "attempt") = 3
    /\ Count(trace, "backoff") = 2

\* ===================================================================
\* Claims about main()
\* ===================================================================

\* The positions in the call log of the calls to fn.
CallsTo(fn) == {i \in 1..Len(calls) : calls[i].fn = fn}

\* main has ended: it returned an exit code or an exception left it.
MainEnded == mpc \in {"done", "crashed"}

\* C12 (as stated): with --dry-run, publish_note is never called and the
\* publish orchestrator is never entered, and a run that got its message
\* source (the cached or queried note, or the forum activity) ends by
\* printing the final message and returning 0.
C12_DryRunPrintsWithoutPublishing ==
    (dry_run /\ ~show_config) =>
        /\ CallsTo("publish_note") = {}
        /\ pc = "idle"
        /\ (MainEnded /\ (message # << >> \/ CallsTo("format_activity") # {})) =>
               (mpc = "done" /\ exit_code = 0 /\ printed # << >>)

\* C13: with --repost, main calls neither the forum fetcher nor the
\* formatter nor the summarizer; besides publish_note the only call it
\* makes is fetch_latest_note.
C13_RepostNeverFetchesActivity ==
    (repost /\ ~show_config) =>
        /\ mpc # "fresh"
        /\ \A i \in 1..Len(calls) : calls[i].fn \in {"fetch_latest_note", "publish_note"}

\* A --repost run whose relay query raised: main returned 1 having called
\* only fetch_latest_note.
C13_Witness ==
    /\ repost
    /\ mpc = "done"
    /\ exit_code = 1
    /\ fresult.kind = "raised"
    /\ Len(calls) = 1
    /\ calls[1].fn = "fetch_latest_note"

\* C19 (as stated): when the summarizer fails on the fresh path, main goes
\* on with the listing as its message and a failure notification, and once
\* the summary publish has returned and main has ended, the notification
\* has been handed to publish_note with the same relays and credentials
\* and update_profile off.
C19_SummarizerFailureIsNotified ==
    CallsTo("summarizer failed") # {} =>
        /\ mpc # "crashed"
        /\ message # << >>
        /\ ai_error_message # << >>
        /\ (mpc = "done" /\ event_id # -1) =>
               \E i \in CallsTo("publish_note") :
                   /\ calls[i].content = ai_error_message
                   /\ calls[i].update_profile = FALSE
                   /\ calls[i].relays = relays
                   /\ calls[i].key = private_key_hex
                   /\ calls[i].bunker = bunker_uri

\* C20: publish_note is called at most twice in a run, the second call
\* being the notification; a second call happens only after the summary
\* publish returned an id, never with --repost, and never after the
\* summary publish raised.
C20_NotificationAtMostOnceAfterSuccess ==
    /\ Cardinality(CallsTo("publish_note")) <= 2
    /\ (mpc = "notify") = (Cardinality(CallsTo("publish_note")) = 2 /\ mpc # "done")
    /\ Cardinality(CallsTo("publish_note")) = 2 =>
           (event_id # -1 /\ ~repost /\ ai_error_message # << >>)
    /\ (mpc = "done" /\ exit_code = 1) => Cardinality(CallsTo("publish_note")) <= 1

\* A --repost run whose summary publish returned: main ended with exit
\* code 0 after exactly one publish_note call.
C20_Witness ==
    /\ repost
    /\ mpc = "done"
    /\ exit_code = 0
    /\ event_id # -1
    /\ Cardinality(CallsTo("publish_note")) = 1

\* A run whose summary publish raised: main ended with exit code 1 after
\* exactly one publish_note call.
PrimaryRaisedNoNotification ==
    /\ mpc = "done"
    /\ exit_code = 1
    /\ result.kind = "raised"
    /\ Cardinality(CallsTo("publish_note")) = 1

\* C21 (as stated): the cache entry carries one posted_at timestamp for each
\* successful summary publish since save_cache wrote it, and none for a
\* publish that raised: within a run that is one entry once publish_note
\* has returned an id, and none before or otherwise.
C21_PostedCountsSuccessfulPublishes ==
    cache.exists => cache.posted = (IF event_id # -1 THEN 1 ELSE 0)

\* C22 (as stated): on the fresh path, once format_activity has returned
\* and the run is not a dry run, today's message is in the cache, whatever
\* becomes of the publish.
C22_FreshRunCachesBeforePublish ==
    (~repost /\ ~dry_run /\ CallsTo("format_activity") # {}) =>
        /\ message # << >>
        /\ cache.exists
        /\ cache.date = "today"
        /\ cache.message = message

\* Nothing has been fetched, queried, printed or published in this run.
NothingDone ==
    /\ calls = << >>
    /\ printed = << >>
    /\ message = << >>
    /\ event_id = -1
    /\ pc = "idle"
    /\ fpc = "idle"

\* The configuration names no signer.
Unsigned == bunker_uri = None /\ private_key_hex = None

\* C23: without --show-config and with neither bunker_uri nor
\* private_key_hex, main goes from its start straight to exit code 1: it
\* makes no forum fetch, relay query or publish, and no step changes the
\* cache.
C23_NoSignerReturnsOneFirst ==
    /\ []((Unsigned /\ ~show_config) =>
             /\ NothingDone
             /\ mpc \in {"start", "done"}
             /\ (mpc = "done" => exit_code = 1))
    /\ [][(Unsigned /\ ~show_config) => cache' = cache]_vars

\* A --repost run without a signer that had today's message cached: it
\* returned 1 although the message to publish was at hand.
C23_Witness ==
    /\ Unsigned
    /\ ~show_config
    /\ repost
    /\ ~dry_run
    /\ CacheHit(cache)
    /\ mpc = "done"
    /\ exit_code = 1

\* A --repost run that finds no cache entry for today and whose only signer
\* is a remote bunker.
BunkerOnlyRepostMiss ==
    /\ repost
    /\ ~show_config
    /\ bunker_uri # None
    /\ private_key_hex = None
    /\ ~(cache.exists /\ cache.date = "today")

\* C24: fetch_latest_note is called only with a private key configured; a
\* --repost run with a missing or stale cache and only a bunker signer
\* ends with exit code 1 without a relay query or a publish, and no step
\* of it changes the cache.
C24_QueryFallbackNeedsLocalKey ==
    /\ [](CallsTo("fetch_latest_note") # {} => private_key_hex # None)
    /\ [](BunkerOnlyRepostMiss =>
             /\ NothingDone
             /\ mpc \in {"start", "repost", "done"}
             /\ (mpc = "done" => exit_code = 1))
    /\ [][BunkerOnlyRepostMiss => cache' = cache]_vars

\* Such a run with a stale cache entry has returned 1.
C24_Witness ==
    /\ BunkerOnlyRepostMiss
    /\ cache.exists
    /\ mpc = "done"
    /\ exit_code = 1

\* C25: publish_note_async called with max_retries <= 0 makes no attempt:
\* no signer is acquired, no client opened, no relay added, no profile or
\* note sent, no backoff taken; it never returns an event id, and it ends
\* raising the terminal error whose reason is None.
C25_NoAttemptWithoutRetries ==
    max_retries <= 0 =>
        /\ pc \in {"loop", "done"}
        /\ trace = << >>
        /\ hist = << >>
        /\ signer = "unbound"
        /\ open = {}
        /\ added = {}
        /\ profiled = {}
        /\ sent = {}
        /\ result.kind # "returned"
        /\ (pc = "done" => result = RaisedTerminal(max_retries, NoError))

\* A call with max_retries <= 0 and relays to publish to has ended.
C25_Witness ==
    /\ max_retries <= 0
    /\ relays # << >>
    /\ pc = "done"
    /\ result = RaisedTerminal(max_retries, NoError)

=============================================================================
